---- MODULE Spec2Model ----
(***************************************************************************)
(* Playback controller of the Results view (Results.js): the progress /    *)
(* isPlaying / speed hooks, the auto-play interval effect, the keyboard    *)
(* and button handlers, and the SWR fetches the view depends on.           *)
(*                                                                         *)
(* Numbers: progress and speed are JavaScript doubles that only ever take  *)
(* multiples of 0.5 here (slider step 1, arrow keys 5, speeds 0.5/1/2), so *)
(* they are kept exactly as integers in units of 1/Scale percent.          *)
(*                                                                         *)
(* React: an update made inside a discrete user event (click, keydown,     *)
(* slider change) is rendered synchronously before the event returns; an   *)
(* update made from the interval callback is queued on the hook and        *)
(* rendered by a later scheduler task.  A render processes the hook queue  *)
(* in order and then runs the effects whose dependencies changed.          *)
(***************************************************************************)
EXTENDS Integers, Sequences, FiniteSets, TLC

VARIABLES
    mounted,    \* the Results component is mounted
    progress,   \* useState(0): committed progress, in 1/Scale percent
    isPlaying,  \* useState(false)
    speed,      \* useState(1), in 1/Scale percent per tick
    intervals,  \* live setInterval timers, each the speed its closure captured
    queue,      \* progress hook queue: tick updaters not yet rendered
    fromAp,     \* useSWR data of /api/airport/<from>
    toAp,       \* useSWR data of /api/airport/<to>
    sunData,    \* useSWR data of /api/subsolar
    params,     \* Object.fromEntries(new URLSearchParams(search))
    isDarkMode, \* ThemeContext: useState of ThemeProviderWrapper
    isGlobeView,        \* Results: useState(true)
    routeRuns,          \* times the route useMemo has computed since mount
    seatRecommendation, \* useSWR data of /api/seat-recommendation
    seatRequests,       \* requests sent to /api/seat-recommendation since mount
    path,               \* the route shown by App: "/" (Home) or "/results"
    form,               \* Home: useState of the form fields
    error,              \* Home: useState('')
    isLoading,          \* Home: useState(false)
    validationResult,   \* Home: useState(null)
    lookup              \* Home: the two airport fetches of a running handleSubmit

vars == <<mounted, progress, isPlaying, speed, intervals, queue, fromAp, toAp,
          sunData, params, isDarkMode, isGlobeView, routeRuns,
          seatRecommendation, seatRequests,
          path, form, error, isLoading, validationResult, lookup>>

playback == <<progress, isPlaying, speed, intervals, queue>>
fetched == <<fromAp, toAp, sunData>>
display == <<isDarkMode, isGlobeView>>
seat == <<seatRecommendation, seatRequests>>
home == <<path, form, error, isLoading, validationResult, lookup>>

(* ------------------------------ bounds --------------------------------- *)

\* interval callbacks that may run before React renders their updates
MaxPending == 2

(* ----------------------------- constants ------------------------------- *)

\* fixed-point unit: progress 1 is 1/Scale percent (smallest speed is 0.5)
Scale == 2

Pct(n) == n * Scale

\* <MenuItem value={0.5}>, {1}, {2}
Speeds == {Scale \div 2, Scale, 2 * Scale}

\* MUI Slider without min/max/step props hands onChange an integer in 0..100;
\* the positions the user drags to here
SliderStops == {0, 1, 50, 99, 100}
SliderValues == {Pct(n) : n \in SliderStops}

\* ArrowLeft / ArrowRight step
ArrowStep == Pct(5)

Max(a, b) == IF a >= b THEN a ELSE b
Min(a, b) == IF a <= b THEN a ELSE b

(* --------------------------- fetched data ------------------------------ *)

\* data is undefined until the fetch resolves (and stays so if it rejects)
Undefined == [kind |-> "undefined", lat |-> 0, lon |-> 0]
\* the backend answered with a JSON body {error: ...}; fetcher does not check r.ok
ErrorBody == [kind |-> "error", lat |-> 0, lon |-> 0]

\* bodies the backend answers with: the departure airport, the arrival
\* airport, the sub-solar point (degrees)
FromBodies == {[kind |-> "airport", lat |-> 41, lon |-> -74]}
ToBodies == {[kind |-> "airport", lat |-> 19, lon |-> 73]}
SubsolarBodies == {[kind |-> "subsolar", lat |-> 23, lon |-> 0]}

FromResponses == FromBodies \cup {ErrorBody}
ToResponses == ToBodies \cup {ErrorBody}
SubsolarResponses == SubsolarBodies \cup {ErrorBody}

\* the response carries coordinates
Usable(data) == data.kind \in {"airport", "subsolar"}

(* --------------------------- URL parameters ---------------------------- *)

\* params.duration as written in the URL: absent, a number, or other text
NoDuration == [kind |-> "missing", n |-> 0]
TextDuration == [kind |-> "text", n |-> 0]
Minutes(n) == [kind |-> "number", n |-> n]

\* the query string Home navigates with: date and time present (the view
\* cannot render without them: params.time.split, params.date.split),
\* from, to and preference are present or not, preference is a text
\* ("missing" when absent), duration=600
FlightParams == [from |-> TRUE, to |-> TRUE, date |-> TRUE, time |-> TRUE,
                 duration |-> Minutes(600), preference |-> "sunrise"]

\* const durationMin = Number(params.duration || 0): NaN for text
durationMinOf(prm) ==
    IF prm.duration.kind = "text" THEN [nan |-> TRUE, n |-> 0]
    ELSE [nan |-> FALSE, n |-> prm.duration.n]
durationMin == durationMinOf(params)

\* !durationMin: 0 and NaN are falsy
Falsy(num) == num.nan \/ num.n = 0

(* ------------------------ seat recommendation ------------------------- *)

\* data of the seat-recommendation useSWR: undefined until a body arrives
NoSeat == [kind |-> "undefined", side |-> ""]
\* bodies the backend may answer with: a recommendation with
\* scores.recommended_side, an {error: ...} body, a body without scores, a
\* body whose scores has no recommended_side
SeatBodies ==
    {[kind |-> "seat", side |-> "left"],
     [kind |-> "seat", side |-> "right"],
     [kind |-> "seat", side |-> "center"],
     [kind |-> "error", side |-> ""],
     [kind |-> "noscores", side |-> ""],
     [kind |-> "noside", side |-> ""]}

\* the useSWR key: the request URL when from, to, date, time and duration
\* are all present (non-empty text), else null; preference || 'sunrise'
NullKey == [sent |-> FALSE, duration |-> NoDuration, preference |-> ""]
seatKeyWithoutDuration(prm) ==
    IF prm.from /\ prm.to /\ prm.date /\ prm.time
    THEN [sent |-> TRUE, duration |-> prm.duration,
          preference |-> IF prm.preference = "missing" THEN "sunrise"
                         ELSE prm.preference]
    ELSE NullKey
seatKeyOf(prm) ==
    IF prm.from /\ prm.to /\ prm.date /\ prm.time /\ prm.duration.kind # "missing"
    THEN [sent |-> TRUE, duration |-> prm.duration,
          preference |-> IF prm.preference = "missing" THEN "sunrise"
                         ELSE prm.preference]
    ELSE NullKey
seatKey == seatKeyOf(params)

(* -------------------------- auto-play effect --------------------------- *)

\* the updater handed to setProgress by the interval callback
TickUpdaterStale(prev, s) == IF progress >= Pct(100) THEN Pct(100) ELSE progress + s
TickUpdater(prev, s) == IF prev >= Pct(100) THEN Pct(100) ELSE prev + s

\* the updater calls setIsPlaying(false) when it finds prev >= 100
TickStopsNever(prev) == FALSE
TickStops(prev) == prev >= Pct(100)

\* React processing the queued tick updaters in order, from state prev
RECURSIVE ProcessQueue(_, _, _)
ProcessQueue(q, prev, stop) ==
    IF q = <<>> THEN [progress |-> prev, stop |-> stop]
    ELSE ProcessQueue(Tail(q), TickUpdater(prev, Head(q)), stop \/ TickStops(prev))

\* return () => clearInterval(interval), registered only when the effect got past its early return
EffectCleanupMissing(ivs, wasPlaying) == ivs
EffectCleanup(ivs, wasPlaying) ==
    IF wasPlaying /\ ivs # <<>> THEN Tail(ivs) ELSE ivs

\* if (!isPlaying) return; const interval = setInterval(..., 100)
EffectSetupUnguarded(ivs, playing, spd) == Append(ivs, spd)
EffectSetup(ivs, playing, spd) ==
    IF ~playing THEN ivs ELSE Append(ivs, spd)

\* useEffect(..., [isPlaying, speed]): cleanup and re-run when a dependency changed
AutoPlayEffectIgnoringSpeed(ivs, oldPlaying, oldSpeed, newPlaying, newSpeed) ==
    IF oldPlaying = newPlaying THEN ivs
    ELSE EffectSetup(EffectCleanup(ivs, oldPlaying), newPlaying, newSpeed)
AutoPlayEffect(ivs, oldPlaying, oldSpeed, newPlaying, newSpeed) ==
    IF oldPlaying = newPlaying /\ oldSpeed = newSpeed THEN ivs
    ELSE EffectSetup(EffectCleanup(ivs, oldPlaying), newPlaying, newSpeed)

(* ------------------------------ render --------------------------------- *)

\* useMemo(..., [fromAp, toAp]): the route is computed again in a render
\* whose fromAp or toAp differs from those of the render before
RouteMemoNoDeps(runs, oldFrom, oldTo, newFrom, newTo) == runs + 1
RouteMemo(runs, oldFrom, oldTo, newFrom, newTo) ==
    IF oldFrom = newFrom /\ oldTo = newTo THEN runs ELSE runs + 1

\* what the tick updaters still queued produce when React renders them:
\* the progress they leave and whether one of them called setIsPlaying(false)
Pending == ProcessQueue(queue, progress, FALSE)

\* One render and commit of Results: the queued tick updaters are applied in
\* order, then the update of the event being handled, whose result is
\* newProgress; playing and spd are the values the event's handler set (or
\* the current ones).  A tick updater that found prev >= 100 has called
\* setIsPlaying(false).
CommitHooks(newProgress, playing, spd) ==
    LET nowPlaying == playing /\ ~Pending.stop
    IN /\ progress' = newProgress
       /\ isPlaying' = nowPlaying
       /\ speed' = spd
       /\ queue' = <<>>
       /\ intervals' = AutoPlayEffect(intervals, isPlaying, speed, nowPlaying, spd)
       /\ UNCHANGED <<mounted, fetched, params>>
       /\ routeRuns' = RouteMemo(routeRuns, fromAp, toAp, fromAp', toAp')
Commit(newProgress, playing, spd) ==
    /\ CommitHooks(newProgress, playing, spd)
    /\ UNCHANGED <<display, seat, home>>

(* ------------------------------ Init ----------------------------------- *)

\* what Home holds while its handleSubmit has been sent: the form as submitted
SubmittedForm == [from |-> "JFK", to |-> "BOM", duration |-> Minutes(600)]
Null == [success |-> FALSE, error |-> "null"]
Success == [success |-> TRUE, error |-> ""]

\* App shows /results, reached from Home; Results renders for the first
\* time, light theme, nothing fetched for the seat recommendation yet
Shown ==
    /\ isDarkMode = FALSE
    /\ isGlobeView = TRUE
    /\ routeRuns = 1
    /\ seatRecommendation = NoSeat
    /\ seatRequests = 0
    /\ path = "/results"
    /\ form = SubmittedForm
    /\ error = ""
    /\ isLoading = TRUE
    /\ validationResult = Success
    /\ lookup = <<>>

Init ==
    /\ mounted = TRUE
    /\ progress = 0
    /\ isPlaying = FALSE
    /\ speed = Scale
    /\ intervals = <<>>
    /\ queue = <<>>
    /\ fromAp = Undefined
    /\ toAp = Undefined
    /\ sunData = Undefined
    /\ params = FlightParams
    /\ Shown

(* ----------------------------- actions --------------------------------- *)

\* the setInterval callback: setProgress(prev => ...)
TimerFire ==
    /\ mounted
    /\ Len(queue) < MaxPending
    /\ \E i \in 1..Len(intervals) : queue' = Append(queue, intervals[i])
    /\ UNCHANGED <<mounted, progress, isPlaying, speed, intervals, fetched, params>>
    /\ UNCHANGED <<display, routeRuns, seat, home>>

\* React's scheduled render of the updates queued by interval callbacks
Render ==
    /\ mounted
    /\ queue # <<>>
    /\ Commit(Pending.progress, isPlaying, speed)

\* handlePlayPause: play button and Space key
HandlePlayPauseNoReset ==
    /\ mounted
    /\ Commit(Pending.progress, ~isPlaying, speed)
HandlePlayPause ==
    /\ mounted
    /\ IF progress >= Pct(100) /\ ~isPlaying
       THEN Commit(0, TRUE, speed)
       ELSE Commit(Pending.progress, ~isPlaying, speed)

\* Slider onChange={(_, v) => setProgress(v)}
SliderChange(v) ==
    /\ mounted
    /\ Commit(v, isPlaying, speed)

\* ArrowLeft: setProgress(prev => Math.max(0, prev - 5))
KeyArrowLeft ==
    /\ mounted
    /\ Commit(Max(0, Pending.progress - ArrowStep), isPlaying, speed)

\* ArrowRight: setProgress(prev => Math.min(100, prev + 5))
KeyArrowRightUnclamped ==
    /\ mounted
    /\ Commit(Pending.progress + ArrowStep, isPlaying, speed)
KeyArrowRight ==
    /\ mounted
    /\ Commit(Min(Pct(100), Pending.progress + ArrowStep), isPlaying, speed)

\* Home: setProgress(0)
KeyHome ==
    /\ mounted
    /\ Commit(0, isPlaying, speed)

\* End: setProgress(100)
KeyEnd ==
    /\ mounted
    /\ Commit(Pct(100), isPlaying, speed)

\* SkipPrevious button: onClick={() => setProgress(0)}
SkipPreviousToEnd ==
    /\ mounted
    /\ Commit(Pct(100), isPlaying, speed)
SkipPrevious ==
    /\ mounted
    /\ Commit(0, isPlaying, speed)

\* SkipNext button: onClick={() => setProgress(100)}
SkipNext ==
    /\ mounted
    /\ Commit(Pct(100), isPlaying, speed)

\* speed Select: onChange={(e) => setSpeed(e.target.value)}
SetSpeed(s) ==
    /\ mounted
    /\ s # speed
    /\ Commit(Pending.progress, isPlaying, s)

\* the three useSWR fetches resolve with a JSON body
FetchFromAp ==
    /\ mounted
    /\ params.from
    /\ fromAp = Undefined
    /\ fromAp' \in FromResponses
    /\ UNCHANGED <<mounted, playback, toAp, sunData, params>>
    /\ routeRuns' = RouteMemo(routeRuns, fromAp, toAp, fromAp', toAp')
    /\ UNCHANGED <<display, seat, home>>

FetchToAp ==
    /\ mounted
    /\ params.to
    /\ toAp = Undefined
    /\ toAp' \in ToResponses
    /\ UNCHANGED <<mounted, playback, fromAp, sunData, params>>
    /\ routeRuns' = RouteMemo(routeRuns, fromAp, toAp, fromAp', toAp')
    /\ UNCHANGED <<display, seat, home>>

FetchSunData ==
    /\ mounted
    /\ params.date /\ params.time
    /\ sunData = Undefined
    /\ sunData' \in SubsolarResponses
    /\ UNCHANGED <<mounted, playback, fromAp, toAp, params>>
    /\ routeRuns' = RouteMemo(routeRuns, fromAp, toAp, fromAp', toAp')
    /\ UNCHANGED <<display, seat, home>>

\* navigating away (title, Home button): the effect cleanup clears the
\* interval and React drops the queued updates; the hook values are kept
\* here as they were at teardown
Unmount ==
    /\ mounted
    /\ mounted' = FALSE
    /\ intervals' = EffectCleanup(intervals, isPlaying)
    /\ queue' = <<>>
    /\ UNCHANGED <<progress, isPlaying, speed, fetched, params>>
    /\ UNCHANGED <<display, routeRuns, seat, home>>

\* navigating to /results again: a fresh Results with its initial hook values
Mount ==
    /\ ~mounted
    /\ mounted' = TRUE
    /\ progress' = 0
    /\ isPlaying' = FALSE
    /\ speed' = Scale
    /\ intervals' = intervals
    /\ queue' = <<>>
    /\ fromAp' = Undefined
    /\ toAp' = Undefined
    /\ sunData' = Undefined
    /\ params' = FlightParams
    /\ isGlobeView' = TRUE
    /\ routeRuns' = 1
    /\ seatRecommendation' = NoSeat
    /\ seatRequests' = 0
    /\ UNCHANGED <<isDarkMode, home>>

\* theme button: toggleTheme, setIsDarkMode(!isDarkMode) in the provider
\* above Results
ToggleTheme ==
    /\ mounted
    /\ CommitHooks(Pending.progress, isPlaying, speed)
    /\ isDarkMode' = ~isDarkMode
    /\ UNCHANGED <<isGlobeView, seat, home>>

\* view button: onClick={() => setIsGlobeView(!isGlobeView)}
ToggleView ==
    /\ mounted
    /\ CommitHooks(Pending.progress, isPlaying, speed)
    /\ isGlobeView' = ~isGlobeView
    /\ UNCHANGED <<isDarkMode, seat, home>>

\* useSWR sends the request for a key that is not null and has no data
\* yet; requests for the same key are not repeated while one is in flight
\* (SWR asking again for the same key when the window regains focus or the
\* network returns is left aside: it changes neither the key nor who asks)
RequestSeat ==
    /\ mounted
    /\ seatKey # NullKey
    /\ seatRequests = 0
    /\ seatRequests' = 1
    /\ UNCHANGED <<mounted, playback, fetched, params, display, routeRuns,
                   seatRecommendation, home>>

\* the request resolves with a JSON body and Results renders with it
ResolveSeat ==
    /\ mounted
    /\ seatRequests = 1
    /\ seatRecommendation = NoSeat
    /\ seatRecommendation' \in SeatBodies
    /\ UNCHANGED <<mounted, playback, fetched, params, display, routeRuns,
                   seatRequests, home>>

Next ==
    \/ TimerFire
    \/ Render
    \/ HandlePlayPause
    \/ \E v \in SliderValues : SliderChange(v)
    \/ KeyArrowLeft
    \/ KeyArrowRight
    \/ KeyHome
    \/ KeyEnd
    \/ SkipPrevious
    \/ SkipNext
    \/ \E s \in Speeds : SetSpeed(s)
    \/ FetchFromAp
    \/ FetchToAp
    \/ FetchSunData
    \/ Unmount
    \/ Mount

Spec == Init /\ [][Next]_vars

(* ------------------- playback without further input -------------------- *)

\* stopped, with any speed already chosen in the Select
InitStopped ==
    /\ mounted = TRUE
    /\ progress = 0
    /\ isPlaying = FALSE
    /\ speed \in Speeds
    /\ intervals = <<>>
    /\ queue = <<>>
    /\ fromAp = Undefined
    /\ toAp = Undefined
    /\ sunData = Undefined
    /\ params = FlightParams
    /\ Shown

\* play() pressed in stopped
PlayFromStopped ==
    /\ progress = 0
    /\ ~isPlaying
    /\ HandlePlayPause

NextAutoPlay ==
    \/ PlayFromStopped
    \/ TimerFire
    \/ Render
    \/ FetchFromAp
    \/ FetchToAp
    \/ FetchSunData

\* setInterval keeps firing while the interval is live, and React's
\* scheduler renders queued updates
SpecAutoPlay ==
    /\ InitStopped
    /\ [][NextAutoPlay]_vars
    /\ WF_vars(TimerFire)
    /\ WF_vars(Render)

(* ------------------------- sun position -------------------------------- *)

\* const earthRotationPerHour = 15
earthRotationPerHour == 15

\* Coordinates are kept exactly as integers in units of 1/DegScale degree:
\* one unit is the sun's drift during 1/Scale percent of a one-minute flight
DegScale == (100 * Scale * 60) \div earthRotationPerHour

Deg(n) == n * DegScale

\* a coordinate pair, null, or a pair that holds no numbers (undefined, NaN)
NullPoint == [kind |-> "null", lat |-> 0, lon |-> 0]
NaNPoint == [kind |-> "nan", lat |-> 0, lon |-> 0]
Point(lat, lon) == [kind |-> "point", lat |-> lat, lon |-> lon]

\* const sunPoint = sunData ? [sunData.lat, sunData.lon] : null
sunPointOf(sd) ==
    IF sd = Undefined THEN NullPoint
    ELSE IF sd.kind = "error" THEN NaNPoint
    ELSE Point(Deg(sd.lat), Deg(sd.lon))

\* currentSunPoint useMemo: elapsedMinutes = (progress / 100) * totalMinutes,
\* timeDiffHours = elapsedMinutes / 60,
\* newLon = originalLon - timeDiffHours * earthRotationPerHour, newLat = originalLat
currentSunPointEastward(sd, prm, prog) ==
    IF sd = Undefined \/ ~prm.date \/ ~prm.time \/ Falsy(durationMinOf(prm))
    THEN sunPointOf(sd)
    ELSE IF sd.kind = "error" THEN NaNPoint
    ELSE Point(Deg(sd.lat), Deg(sd.lon) + prog * durationMinOf(prm).n)
currentSunPointOf(sd, prm, prog) ==
    IF sd = Undefined \/ ~prm.date \/ ~prm.time \/ Falsy(durationMinOf(prm))
    THEN sunPointOf(sd)
    ELSE IF sd.kind = "error" THEN NaNPoint
    ELSE Point(Deg(sd.lat), Deg(sd.lon) - prog * durationMinOf(prm).n)

\* while (lon > 180) lon -= 360; while (lon < -180) lon += 360; return lon
RECURSIVE wrapLongitudeEastOnly(_)
wrapLongitudeEastOnly(lon) ==
    IF lon > Deg(180) THEN wrapLongitudeEastOnly(lon - Deg(360))
    ELSE lon
RECURSIVE wrapLongitude(_)
wrapLongitude(lon) ==
    IF lon > Deg(180) THEN wrapLongitude(lon - Deg(360))
    ELSE IF lon < Deg(-180) THEN wrapLongitude(lon + Deg(360))
    ELSE lon

\* wrappedSunPoint = currentSunPoint ? [currentSunPoint[0], wrapLongitude(currentSunPoint[1])] : null
wrappedSunPointOf(sd, prm, prog) ==
    LET c == currentSunPointOf(sd, prm, prog)
    IN IF c.kind = "point" THEN Point(c.lat, wrapLongitude(c.lon)) ELSE c

\* the values of the current render
sunPoint == sunPointOf(sunData)
currentSunPoint == currentSunPointOf(sunData, params, progress)
wrappedSunPoint == wrappedSunPointOf(sunData, params, progress)

(* ------------------- the sun marker over a flight ---------------------- *)

\* sub-solar points the backend may answer with (degrees)
SunBodies == {[kind |-> "subsolar", lat |-> la, lon |-> lo] :
                la \in {-23, 0, 23}, lo \in {-180, -179, 0, 90, 180}}

\* duration parameters a /results URL may carry
SunDurations == {NoDuration, TextDuration, Minutes(-60), Minutes(0),
                 Minutes(1), Minutes(600), Minutes(720), Minutes(1440)}

SunParams == {[FlightParams EXCEPT !.duration = d] : d \in SunDurations}

\* the view with its fetches resolved, for any sub-solar point and duration
InitSun ==
    /\ mounted = TRUE
    /\ progress = 0
    /\ isPlaying = FALSE
    /\ speed = Scale
    /\ intervals = <<>>
    /\ queue = <<>>
    /\ fromAp \in FromBodies
    /\ toAp \in ToBodies
    /\ sunData \in SunBodies \cup {ErrorBody}
    /\ params \in SunParams
    /\ Shown

\* the user moves progress; every render recomputes the sun position
NextSeek ==
    \/ \E v \in SliderValues : SliderChange(v)
    \/ KeyArrowLeft
    \/ KeyArrowRight
    \/ KeyHome
    \/ KeyEnd
    \/ SkipPrevious
    \/ SkipNext

SpecSun == InitSun /\ [][NextSeek]_vars

(* ------------------------ route (great circle) ------------------------- *)

\* a JSON body whose lat and lon are not numeric (isNaN is true for them)
TextBody == [kind |-> "text", lat |-> 0, lon |-> 0]

\* fromAp?.lat, fromAp?.lon used as conditions: undefined and 0 are falsy
HasLat(ap) == ap.kind = "text" \/ (ap.kind = "airport" /\ ap.lat # 0)
HasLon(ap) == ap.kind = "text" \/ (ap.kind = "airport" /\ ap.lon # 0)

Abs(n) == IF n < 0 THEN -n ELSE n

\* @turf/turf is a dependency, not part of the repository.  Its functions are
\* modelled by their contract on the straight line between the two points in
\* the (lat, lon) plane: greatCircle joins its arguments, length is positive
\* for distinct end points, along returns the point at the given distance
\* from the first point and the last point for any distance past the end.
\* The shorter way between longitudes more than 180 degrees apart crosses
\* the antimeridian; greatCircle then returns a MultiLineString of two
\* segments, one ending on the meridian 180 and one starting on -180 (or the
\* reverse).  Of the npoints samples the model keeps the ends of each segment.
NullLine == [kind |-> "null", first |-> NullPoint, last |-> NullPoint,
             coordinates |-> <<>>]

\* the way from fa to ta crosses the antimeridian
Crosses(fa, ta) == Abs(ta.lon - fa.lon) > 180

\* the longitude, in degrees, at which the way from fa to ta leaves its
\* first segment
ExitLon(fa, ta) == IF fa.lon > ta.lon THEN 180 ELSE -180

\* the latitude at which the way from fa to ta crosses the antimeridian
CrossingLat(fa, ta) ==
    Deg(fa.lat) + ((ta.lat - fa.lat) * DegScale * Abs(ExitLon(fa, ta) - fa.lon))
                      \div (360 - Abs(ta.lon - fa.lon))

greatCircle(fa, ta) ==
    LET first == Point(Deg(fa.lat), Deg(fa.lon))
        last == Point(Deg(ta.lat), Deg(ta.lon))
    IN IF Crosses(fa, ta)
       THEN [kind |-> "MultiLineString", first |-> first, last |-> last,
             coordinates |->
                 << <<first, Point(CrossingLat(fa, ta), Deg(ExitLon(fa, ta)))>>,
                    <<Point(CrossingLat(fa, ta), Deg(-ExitLon(fa, ta))), last>> >>]
       ELSE [kind |-> "LineString", first |-> first, last |-> last,
             coordinates |-> <<first, last>>]

\* length of one degree along the line, km
kmPerDegree == 111

\* lineLength(gc, {units: 'kilometers'}), whole km
lineLength(gc) ==
    LET dLon == Abs(gc.last.lon - gc.first.lon)
    IN (kmPerDegree * Max(Abs(gc.last.lat - gc.first.lat),
                          IF gc.kind = "MultiLineString" THEN Deg(360) - dLon
                          ELSE dLon)) \div DegScale

\* distances along the route are kept exactly in units of 1/KmUnit km:
\* (progress / 100) * totalKm is progress * totalKm in these units
KmUnit == 100 * Scale

\* along(line, km, {units: 'kilometers'}), km in 1/KmUnit km: the point at
\* the fraction km / length of the way, a + (b - a) * d / (KmUnit * len).
\* End points are whole degrees and DegScale is a multiple of KmUnit, so
\* (b - a) / KmUnit is exact; the division by len is taken in two steps to
\* stay within 32-bit integers.
along(gc, kmU) ==
    LET len == lineLength(gc)
        d == Min(kmU, KmUnit * len)
        whole == d \div len
        part == d % len
        At(a, b) == a + ((b - a) \div KmUnit) * whole
                      + (((b - a) \div KmUnit) * part) \div len
    IN Point(At(gc.first.lat, gc.last.lat), At(gc.first.lon, gc.last.lon))

\* coordinates of the route memo: a LineString's points are taken as they
\* are, a MultiLineString's segments are pushed one after the other into a
\* single array
RECURSIVE Flatten(_)
Flatten(segments) ==
    IF segments = <<>> THEN <<>>
    ELSE Head(segments) \o Flatten(Tail(segments))
coordinatesOf(gc) ==
    IF gc.kind = "LineString" THEN gc.coordinates
    ELSE IF gc.kind = "MultiLineString" THEN Flatten(gc.coordinates)
    ELSE <<>>

\* route useMemo: { coordsLatLng, line, totalKm }
NoRoute == [coordsLatLng |-> <<>>, line |-> NullLine, totalKm |-> 0]
routeOfUnvalidated(fa, ta) ==
    LET gc == greatCircle(fa, ta)
    IN [coordsLatLng |-> coordinatesOf(gc),
        line |-> gc,
        totalKm |-> lineLength(gc)]
routeOf(fa, ta) ==
    IF ~(HasLat(fa) /\ HasLat(ta) /\ HasLon(fa) /\ HasLon(ta)) THEN NoRoute
    ELSE IF fa.kind = "text" \/ ta.kind = "text" THEN NoRoute
    ELSE LET gc == greatCircle(fa, ta)
         IN [coordsLatLng |-> coordinatesOf(gc),
             line |-> gc,
             totalKm |-> lineLength(gc)]

(* ----------------------------- angles ---------------------------------- *)

RECURSIVE GCD(_, _)
GCD(a, b) == IF b = 0 THEN a ELSE GCD(b, a % b)

\* Math.atan2(dy, dx): the angle is kept exactly as its direction, the pair
\* (dy, dx) in lowest terms; atan2(0, 0) and atan2(0, dx > 0) are the angle 0
ZeroAngle == [dy |-> 0, dx |-> 1]
atan2(dy, dx) ==
    IF dy = 0 /\ dx >= 0 THEN ZeroAngle
    ELSE LET g == GCD(Abs(dy), Abs(dx))
         IN [dy |-> dy \div g, dx |-> dx \div g]

\* the angle turned by 180 degrees
Turned(angle) == [dy |-> -angle.dy, dx |-> -angle.dx]

\* ceil(1000000 * tan((k - 1/2) degrees)) for k = 1..45: the slopes at which
\* an angle in degrees rounds up to k
TanHalf == <<
    8727, 26186, 43661, 61163, 78702, 96290, 113936, 131653, 149452,
    167343, 185340, 203453, 221695, 240079, 258618, 277325, 296214, 315299,
    334596, 354119, 373885, 393911, 414214, 434813, 455727, 476976, 498582,
    520568, 542956, 565773, 589046, 612801, 637071, 661886, 687281, 713294,
    739962, 767327, 795436, 824337, 854081, 884726, 916332, 948965, 982698 >>

\* floor(1000000 * s / l) for 0 <= s <= l, l > 0, within 32-bit integers
Slope6(s, l) ==
    ((s * 1000) \div l) * 1000 + ((((s * 1000) % l) * 1000) \div l)

\* Math.round of the angle, in degrees, between the nearer axis and the
\* direction (s, l), s <= l: 0..45.  tan((k - 1/2) degrees) is irrational, so
\* no direction with integer components lies on a rounding boundary; slopes
\* are compared to six decimal places, so a direction within 0.00006 degrees
\* of a boundary may be given the neighbouring degree.
RoundOctant(s, l) ==
    LET m == Slope6(s, l)
    IN Cardinality({k \in 1..45 : m >= TanHalf[k]})

\* Math.round of the angle, in degrees, between the x axis and (|dy|, |dx|): 0..90
RoundQuadrant(angle) ==
    LET y == Abs(angle.dy)
        x == Abs(angle.dx)
    IN IF y <= x THEN RoundOctant(y, x) ELSE 90 - RoundOctant(x, y)

\* Math.round((angle * 180 / Math.PI + 360) % 360) for angle = atan2(dy, dx):
\* a negative angle of less than half a degree rounds up to 360
RoundNormalized(angle) ==
    LET q == RoundQuadrant(angle)
    IN IF angle.dy >= 0
       THEN IF angle.dx >= 0 THEN q ELSE 180 - q
       ELSE IF angle.dx >= 0 THEN 360 - q ELSE 180 + q

(* --------------------------- plane marker ------------------------------ *)

\* const km = (progress / 100) * totalKm, in 1/KmUnit km
kmScaledTwice(prog, total) == 2 * prog * total
kmOf(prog, total) == prog * total

\* const nextKm = Math.min(km + 10, totalKm), in 1/KmUnit km
lookAheadKm == 10
nextKmUnclamped(kmU, total) == kmU + lookAheadKm * KmUnit
nextKmOf(kmU, total) == Min(kmU + lookAheadKm * KmUnit, KmUnit * total)

\* atan2(nextPoint[0] - planePoint[0], nextPoint[1] - planePoint[1]): on the
\* line the difference of the two points is (last - first) times the
\* distance between them, taken here in whole degrees times 1/KmUnit km
headingOf(gc, kmU, nextU) ==
    atan2(((gc.last.lat - gc.first.lat) \div DegScale) * (nextU - kmU),
          ((gc.last.lon - gc.first.lon) \div DegScale) * (nextU - kmU))

\* planePoint useMemo: { planePoint, planeRotation }
planeAtOrigin(fa, ta, prog) ==
    LET r == routeOf(fa, ta)
    IN IF r.line = NullLine \/ Len(r.coordsLatLng) = 0 \/ r.totalKm <= 0
       THEN [planePoint |-> NullPoint, planeRotation |-> ZeroAngle]
       ELSE [planePoint |-> along(r.line, kmOf(Max(prog, 0), r.totalKm)),
             planeRotation |-> ZeroAngle]
planeOf(fa, ta, prog) ==
    LET r == routeOf(fa, ta)
    IN IF r.line = NullLine \/ prog <= 0 \/ Len(r.coordsLatLng) = 0 \/ r.totalKm <= 0
       THEN [planePoint |-> NullPoint, planeRotation |-> ZeroAngle]
       ELSE IF r.line.kind = "MultiLineString"
       \* along measures from coordinates[i] to coordinates[i + 1], which
       \* are segments here, not positions: it throws, and the catch
       \* returns { planePoint: null, planeRotation: 0 }
       THEN [planePoint |-> NullPoint, planeRotation |-> ZeroAngle]
       ELSE LET kmU == kmOf(prog, r.totalKm)
            IN [planePoint |-> along(r.line, kmU),
                planeRotation |->
                    IF prog > 0 /\ prog < Pct(100)
                    THEN headingOf(r.line, kmU, nextKmOf(kmU, r.totalKm))
                    ELSE ZeroAngle]

(* ---------------------------- sun angle -------------------------------- *)

NaNAngle == [nan |-> TRUE, n |-> 0]
Degrees(n) == [nan |-> FALSE, n |-> n]

\* dx = currentSunPoint[1] - planePoint[1], dy = currentSunPoint[0] - planePoint[0],
\* normalizedAngle = Math.round((Math.atan2(dy, dx) * 180 / Math.PI + 360) % 360)
normalizedAngleOf(pp, sp) ==
    IF sp.kind = "nan" THEN NaNAngle
    ELSE Degrees(RoundNormalized(atan2(sp.lat - pp.lat, sp.lon - pp.lon)))

\* the text appended to the angle
directionOf(na) ==
    IF na.nan THEN ""
    ELSE IF na.n > 0 /\ na.n < 180 THEN " (Right)"
    ELSE IF na.n > 180 /\ na.n < 360 THEN " (Left)"
    ELSE IF na.n = 0 \/ na.n = 180 THEN " (Front/Back)"
    ELSE ""

\* {planePoint && currentSunPoint && (...)}: the Sun Angle line is rendered
sunAngleShownFor(pp, sp) == pp.kind # "null" /\ sp.kind # "null"

\* the values of the current render
route == routeOf(fromAp, toAp)
line == route.line
totalKm == route.totalKm
coordsLatLng == route.coordsLatLng
plane == planeOf(fromAp, toAp, progress)
planePoint == plane.planePoint
planeRotation == plane.planeRotation
km == kmOf(progress, totalKm)
nextKm == nextKmOf(km, totalKm)
sunAngleShown == sunAngleShownFor(planePoint, currentSunPoint)
normalizedAngle == normalizedAngleOf(planePoint, currentSunPoint)
direction == directionOf(normalizedAngle)

(* ------------------- Home: airport validation -------------------------- *)

\* handleSubmit goes on to nav('/results?...') for this airport response:
\* !(!response.ok || data.error || !data.iata || !data.lat || !data.lon)
HomeAccepts(ap) == HasLat(ap) /\ HasLon(ap)

(* --------------------- the view over any flight ------------------------ *)

\* airport responses of a /results URL (degrees): two distant airports in
\* either order, one a degree south of the first, one on the prime meridian,
\* one whose latitude is past the pole, a body without numbers, an error,
\* no data
RouteFromBodies ==
    {[kind |-> "airport", lat |-> 41, lon |-> -74],
     [kind |-> "airport", lat |-> 19, lon |-> 73],
     [kind |-> "airport", lat |-> 51, lon |-> 0],
     TextBody, ErrorBody, Undefined}
RouteToBodies ==
    {[kind |-> "airport", lat |-> 19, lon |-> 73],
     [kind |-> "airport", lat |-> 41, lon |-> -74],
     [kind |-> "airport", lat |-> 40, lon |-> -74],
     [kind |-> "airport", lat |-> 95, lon |-> -70],
     ErrorBody}

\* sub-solar responses
RouteSunBodies ==
    {[kind |-> "subsolar", lat |-> 23, lon |-> 90],
     [kind |-> "subsolar", lat |-> 19, lon |-> 90],
     [kind |-> "subsolar", lat |-> -23, lon |-> -120],
     ErrorBody}

RouteParams == {[FlightParams EXCEPT !.duration = d] :
                   d \in {NoDuration, Minutes(600)}}

\* the two airports are distinct places (what greatCircle makes of equal end
\* points differs between turf releases, and the repository pins none)
InitRoute ==
    /\ mounted = TRUE
    /\ progress = 0
    /\ isPlaying = FALSE
    /\ speed = Scale
    /\ intervals = <<>>
    /\ queue = <<>>
    /\ fromAp \in RouteFromBodies
    /\ toAp \in RouteToBodies
    /\ Usable(fromAp) => fromAp # toAp
    /\ sunData \in RouteSunBodies
    /\ params \in RouteParams
    /\ Shown

SpecRoute == InitRoute /\ [][NextSeek]_vars

(* ------------------ flights across the antimeridian -------------------- *)

\* airport responses (degrees) on either side of the antimeridian, and one
\* well away from it
PacificBodies ==
    {[kind |-> "airport", lat |-> 35, lon |-> 170],
     [kind |-> "airport", lat |-> 35, lon |-> -170],
     [kind |-> "airport", lat |-> -37, lon |-> 175],
     [kind |-> "airport", lat |-> 21, lon |-> -158],
     [kind |-> "airport", lat |-> 34, lon |-> -118]}

InitPacific ==
    /\ mounted = TRUE
    /\ progress = 0
    /\ isPlaying = FALSE
    /\ speed = Scale
    /\ intervals = <<>>
    /\ queue = <<>>
    /\ fromAp \in PacificBodies
    /\ toAp \in PacificBodies
    /\ fromAp # toAp
    /\ sunData \in SubsolarResponses
    /\ params = FlightParams
    /\ Shown

SpecPacific == InitPacific /\ [][NextSeek]_vars

(* ------------------- playback under the whole view --------------------- *)

\* play, pause, tick, seek, reset and speed change
NextPlayback ==
    \/ TimerFire
    \/ Render
    \/ HandlePlayPause
    \/ NextSeek
    \/ \E s \in Speeds : SetSpeed(s)

\* the sub-solar point and the seat recommendation left aside
InitView ==
    /\ mounted = TRUE
    /\ progress = 0
    /\ isPlaying = FALSE
    /\ speed = Scale
    /\ intervals = <<>>
    /\ queue = <<>>
    /\ fromAp = Undefined
    /\ toAp = Undefined
    /\ sunData \in SubsolarBodies
    /\ params = FlightParams
    /\ Shown

NextView ==
    \/ NextPlayback
    \/ ToggleTheme
    \/ ToggleView
    \/ FetchFromAp
    \/ FetchToAp

SpecView == InitView /\ [][NextView]_vars

(* ---------------------- seat recommendation panel ---------------------- *)

\* 'left'.toUpperCase() and so on
ToUpperCase(str) ==
    IF str = "jfk" THEN "JFK"
    ELSE IF str = "left" THEN "LEFT"
    ELSE IF str = "right" THEN "RIGHT"
    ELSE IF str = "center" THEN "CENTER"
    ELSE str

\* {seatRecommendation && !seatRecommendation.error && (<Paper> ...
\* label={`${seatRecommendation.scores.recommended_side.toUpperCase()} SIDE`}
\* bgcolor: recommended_side === 'left' ? 'leftSeat.main' : 'rightSeat.main':
\* the panel is not rendered, or rendering it throws a TypeError (scores or
\* recommended_side undefined), or it shows a side and a colour
Hidden == [render |-> "hidden", label |-> "", colour |-> ""]
Throws == [render |-> "throws", label |-> "", colour |-> ""]
seatPanelOf(rec) ==
    IF rec = NoSeat \/ rec.kind = "error" THEN Hidden
    ELSE IF rec.kind \in {"noscores", "noside"} THEN Throws
    ELSE [render |-> "panel",
          label |-> ToUpperCase(rec.side),
          colour |-> IF rec.side = "left" THEN "leftSeat" ELSE "rightSeat"]
seatPanel == seatPanelOf(seatRecommendation)

(* ------------------- playback and the recommendation ------------------- *)

\* query strings of /results: from or duration absent, preference absent
SeatParams ==
    {FlightParams,
     [FlightParams EXCEPT !.preference = "missing"],
     [FlightParams EXCEPT !.preference = "sunset", !.duration = Minutes(0)],
     [FlightParams EXCEPT !.duration = NoDuration],
     [FlightParams EXCEPT !.from = FALSE]}

InitSeat ==
    /\ mounted = TRUE
    /\ progress = 0
    /\ isPlaying = FALSE
    /\ speed = Scale
    /\ intervals = <<>>
    /\ queue = <<>>
    /\ params \in SeatParams
    /\ fromAp \in (IF params.from THEN FromBodies ELSE {Undefined})
    /\ toAp \in ToBodies
    /\ sunData \in SubsolarBodies
    /\ Shown

NextSeat ==
    \/ NextPlayback
    \/ RequestSeat
    \/ ResolveSeat

SpecSeat == InitSeat /\ [][NextSeat]_vars

(* ------------------------------- Home --------------------------------- *)

\* what the user has typed into the From and To fields, and into Duration
Codes == {"", "JFK", "jfk", "BOM"}
Durations == {NoDuration, TextDuration, Minutes(0), Minutes(-5), Minutes(90)}

\* useState({ from: '', to: '', date: '', time: '', duration: '', ... })
EmptyForm == [from |-> "", to |-> "", duration |-> NoDuration]

\* parseInt(form.duration): NaN for '' and for text without leading digits
parseInt(dur) ==
    IF dur.kind = "number" THEN [nan |-> FALSE, n |-> dur.n]
    ELSE [nan |-> TRUE, n |-> 0]

\* parseInt(form.duration) <= 0: a comparison with NaN is false
NotAboveZero(num) == ~num.nan /\ num.n <= 0

\* what a fetch of /api/airport/<code> comes to: a 200 body with
\* coordinates, a 200 body whose latitude is 0, an {error: ...} body (404),
\* a body that is not JSON (response.json() throws), a rejected fetch
Rejected == [kind |-> "rejected", lat |-> 0, lon |-> 0]
NotJson == [kind |-> "notjson", lat |-> 0, lon |-> 0]
LookupResponses ==
    {[kind |-> "airport", lat |-> 41, lon |-> -74],
     [kind |-> "airport", lat |-> 0, lon |-> 32],
     ErrorBody, NotJson, Rejected}

\* setValidationResult({ success: false, error })
Failure(message) == [success |-> FALSE, error |-> message]

\* the rest of handleSubmit once Promise.all has settled: a rejection or a
\* body that is not JSON ends in the catch; then the departure airport is
\* validated, then the arrival airport
lookupResultOf(req) ==
    IF {req.fromResponse.kind, req.toResponse.kind} \cap {"rejected", "notjson"} # {}
    THEN Failure("Network error. Please try again.")
    ELSE IF ~HomeAccepts(req.fromResponse)
    THEN Failure("Invalid departure airport: " \o req.from)
    ELSE IF ~HomeAccepts(req.toResponse)
    THEN Failure("Invalid arrival airport: " \o req.to)
    ELSE Success

\* new URLSearchParams(form) as Results reads it: an empty field is falsy
paramsOf(f) ==
    [from |-> f.from # "", to |-> f.to # "", date |-> TRUE, time |-> TRUE,
     duration |-> f.duration, preference |-> "sunrise"]

\* the form is on screen: route "/", not the LoadingPage, no effect pending
FormShown == path = "/" /\ ~isLoading /\ validationResult = Null

\* handleChange(field)(e): setForm({ ...form, [field]: value }), and
\* setError('') if an error is shown
handleChange(field, value) ==
    /\ FormShown
    /\ form' = [form EXCEPT ![field] = value]
    /\ error' = ""
    /\ UNCHANGED <<path, isLoading, validationResult, lookup>>
    /\ UNCHANGED <<mounted, playback, fetched, params, display, routeRuns, seat>>

\* handleSubmit up to its first await: the same-airport check, the duration
\* check, then setError(''), setIsLoading(true) and the two fetches.  It is
\* the handler itself that is modelled: the required and min attributes of
\* the fields, by which a browser withholds the submit event, are not
handleSubmit ==
    /\ FormShown
    /\ IF ToUpperCase(form.from) = ToUpperCase(form.to)
       THEN /\ error' = "Cannot travel to the same airport"
            /\ UNCHANGED <<isLoading, lookup>>
       ELSE IF NotAboveZero(parseInt(form.duration))
       THEN /\ error' = "Flight duration must be greater than 0 minutes"
            /\ UNCHANGED <<isLoading, lookup>>
       ELSE /\ error' = ""
            /\ isLoading' = TRUE
            /\ lookup' = <<[from |-> form.from, to |-> form.to,
                            fromResponse |-> Undefined,
                            toResponse |-> Undefined]>>
    /\ UNCHANGED <<path, form, validationResult>>
    /\ UNCHANGED <<mounted, playback, fetched, params, display, routeRuns, seat>>

\* fetch(`/api/airport/${form.from}`) settles
FromResponds ==
    /\ lookup # <<>>
    /\ lookup[1].fromResponse = Undefined
    /\ \E r \in LookupResponses :
          lookup' = <<[lookup[1] EXCEPT !.fromResponse = r]>>
    /\ UNCHANGED <<path, form, error, isLoading, validationResult>>
    /\ UNCHANGED <<mounted, playback, fetched, params, display, routeRuns, seat>>

\* fetch(`/api/airport/${form.to}`) settles
ToResponds ==
    /\ lookup # <<>>
    /\ lookup[1].toResponse = Undefined
    /\ \E r \in LookupResponses :
          lookup' = <<[lookup[1] EXCEPT !.toResponse = r]>>
    /\ UNCHANGED <<path, form, error, isLoading, validationResult>>
    /\ UNCHANGED <<mounted, playback, fetched, params, display, routeRuns, seat>>

\* Promise.all has settled: both fetches fulfilled, or one rejected
Settled(req) ==
    \/ Rejected \in {req.fromResponse, req.toResponse}
    \/ Undefined \notin {req.fromResponse, req.toResponse}

\* handleSubmit after the await: on success setValidationResult({ success:
\* true }) and nav(`/results?${q}`), which mounts Results; otherwise
\* setValidationResult({ success: false, error }) and setIsLoading(false)
AwaitLookup ==
    /\ lookup # <<>>
    /\ Settled(lookup[1])
    /\ lookup' = <<>>
    /\ validationResult' = lookupResultOf(lookup[1])
    /\ IF validationResult' = Success
       THEN /\ path' = "/results"
            /\ mounted' = TRUE
            /\ params' = paramsOf(form)
            /\ UNCHANGED isLoading
       ELSE /\ isLoading' = FALSE
            /\ UNCHANGED <<path, mounted, params>>
    /\ UNCHANGED <<form, error>>
    /\ UNCHANGED <<playback, fetched, display, routeRuns, seat>>

\* useEffect(..., [validationResult]): a failed validation becomes the error
\* shown and validationResult is reset to null
ValidationEffectWithoutReset ==
    /\ path = "/"
    /\ validationResult # Null
    /\ ~validationResult.success
    /\ error # validationResult.error
    /\ error' = validationResult.error
    /\ UNCHANGED <<path, form, isLoading, lookup, validationResult>>
    /\ UNCHANGED <<mounted, playback, fetched, params, display, routeRuns, seat>>
ValidationEffect ==
    /\ path = "/"
    /\ validationResult # Null
    /\ ~validationResult.success
    /\ error' = validationResult.error
    /\ validationResult' = Null
    /\ UNCHANGED <<path, form, isLoading, lookup>>
    /\ UNCHANGED <<mounted, playback, fetched, params, display, routeRuns, seat>>

\* Home as first opened: Results is not mounted
InitHome ==
    /\ mounted = FALSE
    /\ progress = 0
    /\ isPlaying = FALSE
    /\ speed = Scale
    /\ intervals = <<>>
    /\ queue = <<>>
    /\ fromAp = Undefined
    /\ toAp = Undefined
    /\ sunData = Undefined
    /\ params = FlightParams
    /\ isDarkMode = FALSE
    /\ isGlobeView = TRUE
    /\ routeRuns = 1
    /\ seatRecommendation = NoSeat
    /\ seatRequests = 0
    /\ path = "/"
    /\ form = EmptyForm
    /\ error = ""
    /\ isLoading = FALSE
    /\ validationResult = Null
    /\ lookup = <<>>

NextHome ==
    \/ \E field \in {"from", "to"}, code \in Codes : handleChange(field, code)
    \/ \E dur \in Durations : handleChange("duration", dur)
    \/ handleSubmit
    \/ FromResponds
    \/ ToResponds
    \/ AwaitLookup
    \/ ValidationEffect

SpecHome == InitHome /\ [][NextHome]_vars

\* every fetch settles, the continuation of a settled await runs, and React
\* runs the effects of a commit
SpecHomeFair ==
    /\ SpecHome
    /\ WF_vars(FromResponds)
    /\ WF_vars(ToResponds)
    /\ WF_vars(AwaitLookup)
    /\ WF_vars(ValidationEffect)

(* ------------------------------ claims --------------------------------- *)

Clamp(p) == Max(0, Min(Pct(100), p))

RECURSIVE Sum(_)
Sum(q) == IF q = <<>> THEN 0 ELSE Head(q) + Sum(Tail(q))

\* C1: in every reachable playback state progress lies in [0,100], so the
\* sampler and the sun propagation are never evaluated outside [0,100].
ProgressInRange == progress \in 0..Pct(100)

\* C2: a tick that makes progress reach 100 leaves the controller completed
\* (isPlaying = false, progress = 100).
TickReaching100Completes ==
    [][(Render /\ progress < Pct(100) /\ progress' >= Pct(100))
         => (~isPlaying' /\ progress' = Pct(100))]_vars

\* C3: from stopped, after play() and with ticks firing fairly and no other
\* user input, the controller eventually reaches completed (not playing,
\* progress = 100) and stays there, for every speed.
AutoPlayCompletes ==
    [](isPlaying => <>[](~isPlaying /\ progress = Pct(100)))

AutoPlayCompleted ==
    /\ ~isPlaying
    /\ progress = Pct(100)
    /\ speed = Scale \div 2
    /\ intervals = <<>>

\* C4 as stated: reset (skip-to-start button or Home key) from any state
\* leaves progress = 0 and isPlaying = false.
ResetStops ==
    [][(SkipPrevious \/ KeyHome) => (progress' = 0 /\ ~isPlaying')]_vars

\* C4 amended: reset sets progress to 0 and does not itself change isPlaying
\* or speed: a controller that is not playing ends in stopped, a playing one
\* keeps playing from 0 (unless a tick already fired at progress >= 100
\* stops it).
ResetRewinds ==
    [][(SkipPrevious \/ KeyHome)
         => /\ progress' = 0
            /\ speed' = speed
            /\ isPlaying' = (isPlaying /\ ~Pending.stop)
            /\ (~isPlaying => ~isPlaying')]_vars

ResetWhilePlaying ==
    /\ mounted
    /\ isPlaying
    /\ progress = 0
    /\ queue = <<>>
    /\ intervals = <<speed>>

\* C5: play in stopped, paused or completed sets isPlaying = true; at
\* progress >= 100 progress is reset to 0 first, below 100 it is unchanged.
PlayStartsPlayback ==
    [][(HandlePlayPause /\ ~isPlaying)
         => /\ isPlaying'
            /\ speed' = speed
            /\ progress' = IF progress >= Pct(100) THEN 0 ELSE progress]_vars

PlayingFromPaused ==
    /\ mounted
    /\ isPlaying
    /\ progress = Pct(99)
    /\ queue = <<>>
    /\ intervals = <<speed>>
    /\ speed = 2 * Scale

\* the outcome of a seek to p: p clamped, speed and isPlaying as they were
\* (isPlaying false only if a tick already fired at progress >= 100)
SeekResult(p) ==
    /\ progress' = Clamp(p)
    /\ progress' \in 0..Pct(100)
    /\ speed' = speed
    /\ isPlaying' = (isPlaying /\ ~Pending.stop)

\* C6: a seek by slider, arrow keys (+/-5), End key or skip-to-end button,
\* in any state, sets progress to the target clamped into [0,100] and leaves
\* isPlaying and speed unchanged by the seek itself.
SeekClamps ==
    [][/\ \A v \in SliderValues : SliderChange(v) => SeekResult(v)
       /\ KeyArrowLeft => SeekResult(Pending.progress - ArrowStep)
       /\ KeyArrowRight => SeekResult(Pending.progress + ArrowStep)
       /\ (KeyEnd \/ SkipNext) => SeekResult(Pct(100))]_vars

SeekWhilePlaying ==
    /\ mounted
    /\ isPlaying
    /\ progress = Pct(100)
    /\ queue = <<>>
    /\ intervals = <<speed>>

\* C7: a seek issued while playing with a tick pending is never lost: the
\* seek overrides the ticks queued before it, and the ticks rendered after
\* it each add their increment to the seeked value.
SeekNotLost ==
    [][/\ \A v \in SliderValues :
            (SliderChange(v) /\ queue # <<>>) => (progress' = v /\ queue' = <<>>)
       /\ ((KeyEnd \/ SkipNext) /\ queue # <<>>) => (progress' = Pct(100) /\ queue' = <<>>)
       /\ ((KeyHome \/ SkipPrevious) /\ queue # <<>>) => (progress' = 0 /\ queue' = <<>>)
       /\ (Render /\ progress + Sum(queue) <= Pct(100))
            => progress' = progress + Sum(queue)]_vars

TicksPendingOnSeeked ==
    /\ mounted
    /\ isPlaying
    /\ progress = Pct(50)
    /\ Len(queue) = 2

\* C8: playback never starts or advances while an airport lookup or the
\* sub-solar fetch is unresolved or unusable.
PlaybackWaitsForData ==
    (mounted /\ isPlaying)
        => (Usable(fromAp) /\ Usable(toAp) /\ Usable(sunData))

UserSeek ==
    \/ \E v \in SliderValues : SliderChange(v)
    \/ KeyArrowLeft
    \/ KeyArrowRight
    \/ KeyHome
    \/ KeyEnd
    \/ SkipPrevious
    \/ SkipNext

\* C9: the initial state is stopped; ticks fire and are rendered only in
\* the playing state; pause moves playing to paused and applies no progress
\* update of its own; while not playing no timer is live, no tick is
\* pending, and progress changes only by a seek or by play from the end.
TickOnlyWhilePlaying ==
    /\ (progress = 0 /\ ~isPlaying)
    /\ [][/\ (TimerFire \/ Render) => isPlaying
          /\ (HandlePlayPause /\ isPlaying)
               => /\ ~isPlaying'
                  /\ progress' = Pending.progress
                  /\ queue = <<>> => progress' = progress
          /\ (mounted /\ ~isPlaying) => (queue = <<>> /\ intervals = <<>>)
          /\ (mounted /\ ~isPlaying /\ progress' # progress)
               => (UserSeek \/ HandlePlayPause)]_vars

PausedMidway ==
    /\ mounted
    /\ ~isPlaying
    /\ progress = Pct(1) + 1
    /\ queue = <<>>
    /\ intervals = <<>>

\* C10: at most one tick timer is live; after the view unmounts or
\* isPlaying becomes false, no timer is live (so no further tick fires) and
\* after unmount no queued tick remains.
TimerStoppedOnTeardown ==
    /\ Len(intervals) <= 1
    /\ (~mounted \/ ~isPlaying) => intervals = <<>>
    /\ ~mounted => queue = <<>>
    /\ (mounted /\ isPlaying) => intervals = <<speed>>

TornDownWhilePlaying ==
    /\ ~mounted
    /\ isPlaying
    /\ intervals = <<>>

\* C11 as stated: the sun longitude produced by wrapLongitude lies in the
\* half-open interval (-180,180]; -180 is never output.
SunLonHalfOpen ==
    wrappedSunPoint.kind = "point"
        => (wrappedSunPoint.lon > Deg(-180) /\ wrappedSunPoint.lon <= Deg(180))

\* C11 amended: the sun longitude produced by wrapLongitude lies in the
\* closed interval [-180,180] and differs from the propagated longitude by
\* a multiple of 360; -180 is output when the propagated longitude is -180
\* or lies a multiple of 360 below it.
SunLonClosed ==
    wrappedSunPoint.kind = "point"
        => /\ wrappedSunPoint.lon >= Deg(-180)
           /\ wrappedSunPoint.lon <= Deg(180)
           /\ (currentSunPoint.lon - wrappedSunPoint.lon) % Deg(360) = 0
           /\ wrappedSunPoint.lat = currentSunPoint.lat

SunAtMinus180 ==
    /\ wrappedSunPoint.kind = "point"
    /\ wrappedSunPoint.lon = Deg(-180)
    /\ currentSunPoint.lon = Deg(-540)
    /\ progress = Pct(100)

\* C12: with a base sub-solar point, the sun position at progress p of a
\* flight of d minutes is (baseLat, baseLon - 15 * (p/100 * d)/60) before
\* wrapping; the latitude is the base latitude at every progress, and at
\* elapsed time 0 the base point is returned unchanged.
SunPropagation ==
    (Usable(sunData) /\ ~durationMin.nan)
        => /\ currentSunPoint.kind = "point"
           /\ currentSunPoint.lat = Deg(sunData.lat)
           /\ 15 * currentSunPoint.lon
                = 100 * Scale * 60 * sunData.lon - 15 * progress * durationMin.n
           /\ (progress * durationMin.n = 0 => currentSunPoint = sunPoint)

SunMovedWest ==
    /\ Usable(sunData)
    /\ progress = Pct(50)
    /\ durationMin = [nan |-> FALSE, n |-> 600]
    /\ sunData.lon = 0
    /\ currentSunPoint.lon = Deg(-75)

\* C13: sun propagation fails with an error when the elapsed time is
\* negative or non-finite; a negative or non-numeric duration never yields
\* a propagated sun position.
InvalidTimeRejected ==
    (Usable(sunData) /\ (durationMin.nan \/ progress * durationMin.n < 0))
        => (currentSunPoint.kind = "point" => currentSunPoint = sunPoint)

\* C14 as stated: whenever the Sun Angle line is shown for a plane position
\* and a sun position, the angle is in [0,360) and carries exactly one label: right in (0,180), left in
\* (180,360), and one label at 0 (front) that differs from the one at 180
\* (back); no angle goes without a label.
SunAngleClassified ==
    (sunAngleShown /\ currentSunPoint.kind = "point") =>
        /\ normalizedAngle.n >= 0 /\ normalizedAngle.n < 360
        /\ direction # ""
        /\ (normalizedAngle.n > 0 /\ normalizedAngle.n < 180 => direction = " (Right)")
        /\ (normalizedAngle.n > 180 /\ normalizedAngle.n < 360 => direction = " (Left)")
        /\ (normalizedAngle.n = 0 => direction # directionOf(Degrees(180)))

\* the side opposite to a label
Flip(d) ==
    IF d = " (Right)" THEN " (Left)"
    ELSE IF d = " (Left)" THEN " (Right)"
    ELSE d

\* the flight flown the other way round, at the same place
returnPlane == planeOf(toAp, fromAp, Pct(100) - progress)

\* C15 as stated: for the same plane position and the same sun position,
\* the aircraft heading turned by 180 degrees (the return flight at the same
\* place) turns a left label into right and a right label into left.
HeadingTurnFlipsSide ==
    (/\ sunAngleShown
     /\ returnPlane.planePoint = planePoint
     /\ returnPlane.planeRotation = Turned(planeRotation)
     /\ direction \in {" (Right)", " (Left)"})
    => directionOf(normalizedAngleOf(returnPlane.planePoint, currentSunPoint))
           = Flip(direction)

ShareOfWay(pp, gc, prog) ==
    /\ pp.kind = "point"
    /\ 100 * Scale * (pp.lat - gc.first.lat) = prog * (gc.last.lat - gc.first.lat)
    /\ 100 * Scale * (pp.lon - gc.first.lon) = prog * (gc.last.lon - gc.first.lon)

LookAheadWithinRoute ==
    /\ (planePoint.kind = "point" /\ progress < Pct(100)) =>
           /\ nextKm > km
           /\ nextKm <= KmUnit * totalKm
           /\ (nextKm = km + lookAheadKm * KmUnit \/ nextKm = KmUnit * totalKm)
    /\ (progress = 0 \/ progress = Pct(100) \/ planePoint.kind = "null") =>
           planeRotation = ZeroAngle

LookAheadClamped ==
    /\ planePoint.kind = "point"
    /\ progress = Pct(99)
    /\ km + lookAheadKm * KmUnit > KmUnit * totalKm
    /\ nextKm = KmUnit * totalKm
    /\ planeRotation = atan2(-1, 0)

\* the response is not a pair of numbers with latitude in [-90,90] and
\* longitude in [-180,180]
InvalidCoordinates(ap) ==
    \/ ap.kind # "airport"
    \/ ap.lat < -90 \/ ap.lat > 90
    \/ ap.lon < -180 \/ ap.lon > 180

\* C19 as stated: no route is built (line null, totalKm 0, no polyline) when
\* either end point has non-numeric or out-of-range coordinates, whatever the
\* URL of the Results view.
NoRouteForInvalidEndpoints ==
    (InvalidCoordinates(fromAp) \/ InvalidCoordinates(toAp)) => route = NoRoute

\* C20 as stated: successful lookups, a latitude or longitude of exactly 0
\* included, are valid airports: Home accepts them and Results builds a
\* route and, once progress is past 0, a plane position.
ZeroCoordinateIsValid ==
    (fromAp.kind = "airport" /\ toAp.kind = "airport") =>
        /\ HomeAccepts(fromAp)
        /\ HomeAccepts(toAp)
        /\ line # NullLine
        /\ (progress > 0 => planePoint.kind = "point")

\* the response is a body with numeric latitude and longitude
Numeric(ap) == ap.kind = "airport"

\* C21: if either airport response is missing, is an error body or lacks
\* numeric coordinates, no route is built (line null, empty polyline,
\* totalKm 0) and the plane point is null at every progress.
NoRouteWithoutCoordinates ==
    (~Numeric(fromAp) \/ ~Numeric(toAp)) =>
        /\ line = NullLine
        /\ coordsLatLng = <<>>
        /\ totalKm = 0
        /\ planePoint = NullPoint

NoPlaneWithoutNumbers ==
    /\ fromAp = TextBody
    /\ Numeric(toAp)
    /\ progress = Pct(50)
    /\ line = NullLine
    /\ planePoint = NullPoint

\* C22 as stated: no two consecutive points of the polyline handed to the
\* map have longitudes more than 180 degrees apart, also when the great
\* circle is a MultiLineString.
PolylineWithoutJump ==
    \A i \in 1..(Len(coordsLatLng) - 1) :
        Abs(coordsLatLng[i + 1].lon - coordsLatLng[i].lon) <= Deg(180)

\* C23: the route (line, polyline, totalKm) is computed again only when the
\* origin or destination airport data changes: play, pause, tick, seek,
\* reset, speed change, theme toggle and view toggle leave it as it is.
RouteOnlyFollowsAirports ==
    [][/\ (NextPlayback \/ ToggleTheme \/ ToggleView) =>
              /\ routeRuns' = routeRuns
              /\ routeOf(fromAp', toAp') = route
       /\ routeRuns' # routeRuns => (fromAp' # fromAp \/ toAp' # toAp)
      ]_vars

RouteKeptWhileViewChanges ==
    /\ line # NullLine
    /\ routeRuns = 3
    /\ isDarkMode
    /\ ~isGlobeView
    /\ isPlaying
    /\ speed = 2 * Scale
    /\ progress > Pct(50)

SeatResponseValidated ==
    (/\ seatRecommendation # NoSeat
     /\ seatRecommendation.kind # "error"
     /\ ~(seatRecommendation.kind = "seat" /\ seatRecommendation.side \in {"left", "right"}))
    => /\ seatPanel.render # "throws"
       /\ seatPanel.colour \notin {"leftSeat", "rightSeat"}

\* Math.atan2 returns an angle in (-180, 180] degrees: it is in [0, 360)
\* exactly when the direction does not point south
InFullTurn(angle) == angle.dy >= 0

\* C26 as stated: for every progress in (0, 100) with a plane on the route,
\* the heading planeRotation lies in [0, 360), southward and westward routes
\* included
HeadingInFullTurn ==
    (progress > 0 /\ progress < Pct(100) /\ planePoint # NullPoint)
        => InFullTurn(planeRotation)

\* C27: a speed change leaves progress and isPlaying as the ticks already
\* delivered left them (untouched when none is pending), speed is always one
\* of 0.5, 1, 2, and the only timer alive after the change, hence every tick
\* after it, carries the new speed
SpeedChangeOnlySpeed ==
    [][/\ speed' \in Speeds
       /\ \A i \in 1..Len(intervals') : intervals'[i] = speed'
       /\ \A i \in 1..Len(queue') : queue'[i] = speed'
       /\ speed' # speed =>
            /\ progress' = Pending.progress
            /\ isPlaying' = (isPlaying /\ ~Pending.stop)
            /\ queue = <<>> => (progress' = progress /\ isPlaying' = isPlaying)
            /\ queue' = <<>>
            /\ intervals' = IF isPlaying' THEN <<speed'>> ELSE <<>>
            /\ UNCHANGED <<mounted, fetched, params, display, seat, home>>]_vars
TicksAtNewSpeed ==
    /\ isPlaying
    /\ speed = Scale \div 2
    /\ intervals = <<Scale \div 2>>
    /\ queue = <<Scale \div 2, Scale \div 2>>
    /\ progress % Scale = 1

\* the duration typed is a positive integer
PositiveInteger(dur) == dur.kind = "number" /\ dur.n > 0

\* C28 as stated: a submission whose origin and destination are equal
\* ignoring case, or whose duration is zero, negative, empty or not a number,
\* sets an error message and does not enter the loading state, send an
\* airport fetch or navigate
LocalChecksReject ==
    [][(/\ handleSubmit
        /\ \/ ToUpperCase(form.from) = ToUpperCase(form.to)
           \/ ~PositiveInteger(form.duration))
       => (error' # "" /\ ~isLoading' /\ lookup' = <<>> /\ path' = "/")]_vars

\* C29: a submission past the local checks ends in one of two ways.  The
\* step that ends the lookup either navigates to /results, exactly when both
\* responses are valid airports, or leaves Home with isLoading false and a
\* failed validation result: the departure airport's if the departure
\* response is invalid, else the arrival airport's, a network error if a
\* fetch was rejected or a body was not JSON.  And every loading state leads
\* to /results or to isLoading false with the error shown and
\* validationResult null again.
Valid(data) == data.kind \notin {"rejected", "notjson", "undefined"} /\ HomeAccepts(data)
Broken(req) == {req.fromResponse.kind, req.toResponse.kind} \cap {"rejected", "notjson"} # {}
SubmissionEnds ==
    /\ [][(lookup # <<>> /\ lookup' = <<>>) =>
            LET req == lookup[1]
            IN /\ (path' = "/results") # (path' = "/" /\ ~isLoading' /\ ~validationResult'.success)
               /\ path' = "/results" <=> (Valid(req.fromResponse) /\ Valid(req.toResponse))
               /\ path' = "/results" => (isLoading' /\ validationResult' = Success /\ mounted')
               /\ path' = "/" =>
                    validationResult'.error =
                        IF Broken(req) THEN "Network error. Please try again."
                        ELSE IF ~Valid(req.fromResponse)
                        THEN "Invalid departure airport: " \o req.from
                        ELSE "Invalid arrival airport: " \o req.to]_vars
    /\ (path = "/" /\ isLoading) ~>
            \/ path = "/results"
            \/ (~isLoading /\ error # "" /\ validationResult = Null /\ lookup = <<>>)
DepartureReportedFirst ==
    /\ path = "/"
    /\ ~isLoading
    /\ lookup = <<>>
    /\ validationResult = Null
    /\ error = "Invalid departure airport: JFK"
    /\ form.to = "BOM"

\* C30 as stated: the Left/Right label shown with the Sun Angle, computed
\* from the propagated longitude, is the label the wrapped longitude of the
\* sun marker gives, at every progress
SunSideSameUnderWrap ==
    sunAngleShown =>
        direction = directionOf(normalizedAngleOf(planePoint, wrappedSunPoint))

====
